---- MODULE Spec2Model ----
(***************************************************************************)
(* Shape Key Transfer (shapekeytransfer.py): the ShapeKeyTransfer class,   *)
(* its process-wide instance SKT and the operators that drive it.          *)
(*                                                                         *)
(* Vectors are points <<x, z>> of an integer grid (the radius offset of    *)
(* select_vertices is taken along z).  Lengths are compared by their       *)
(* squares, which orders them as the lengths themselves.  Source positions *)
(* are multiples of Unit, so that the mean over any set of source vertices *)
(* is a grid point and \div is exact wherever the code divides.            *)
(* Vertex and key indices are 0-based as in the code; data[i + 1] reads    *)
(* slot i of a sequence.                                                   *)
(***************************************************************************)
EXTENDS Integers, Sequences, FiniteSets, TLC

\* ---------------------------------------------------------------- bounds
MaxSrcVerts == 3
MaxDestVerts == 2
MaxIncrements == 1
MaxCalls == 2

\* ------------------------------------------------------------- vectors
RECURSIVE Factorial(_)
Factorial(n) == IF n <= 1 THEN 1 ELSE n * Factorial(n - 1)

Unit == Factorial(MaxSrcVerts)

VecAdd(a, b) == <<a[1] + b[1], a[2] + b[2]>>
VecSub(a, b) == <<a[1] - b[1], a[2] - b[2]>>
VecDiv(a, n) == <<a[1] \div n, a[2] \div n>>
\* Vector.length, squared
Length2(a) == a[1] * a[1] + a[2] * a[2]

\* A diagonal affine matrix: scale n[i]/d[i] on axis i, then translation t.
IdentityMatrix == [n |-> <<1, 1>>, d |-> <<1, 1>>, t |-> <<0, 0>>]
NoMatrix == [n |-> <<0, 0>>, d |-> <<0, 0>>, t |-> <<0, 0>>]
\* matrix @ vector
MatMul(m, p) ==
  <<(m.n[1] * p[1]) \div m.d[1] + m.t[1], (m.n[2] * p[2]) \div m.d[2] + m.t[2]>>
\* Matrix.inverted()
Inverted(m) ==
  [n |-> m.d, d |-> m.n,
   t |-> <<(0 - m.t[1] * m.d[1]) \div m.n[1], (0 - m.t[2] * m.d[2]) \div m.n[2]>>]

\* ------------------------------------------------------ select_vertices
\* Variant: the comparison strict.
IsCloserStrict(d2, closest_length) == d2 < closest_length

\* (v.co - lco).length <= closest_length
IsCloser(d2, closest_length) == d2 <= closest_length

\* The scan of select_vertices from source vertex `index` on: acc holds
\* src_chosen_vertices, closest_length (squared) and closest_vertex_index.
RECURSIVE ScanVertices(_, _, _, _, _, _)
ScanVertices(basis, lco, r2, use_one_vertex, index, acc) ==
  IF index >= Len(basis) THEN acc
  ELSE LET d2 == Length2(VecSub(basis[index + 1], lco))
           is_selected == d2 <= r2
           closer == is_selected /\ use_one_vertex /\ IsCloser(d2, acc.closest_length)
       IN ScanVertices(basis, lco, r2, use_one_vertex, index + 1,
            [chosen |-> IF is_selected THEN Append(acc.chosen, index) ELSE acc.chosen,
             closest_length |-> IF closer THEN d2 ELSE acc.closest_length,
             closest_vertex_index |-> IF closer THEN index ELSE acc.closest_vertex_index])

\* select_vertices(center, radius) against the source basis key's data
select_vertices(basis, src_mwi, use_one_vertex, center, radius) ==
  LET radius_vec == VecAdd(center, <<0, radius>>)
      lco == MatMul(src_mwi, center)
      r == VecSub(MatMul(src_mwi, radius_vec), lco)
      scan == ScanVertices(basis, lco, Length2(r), use_one_vertex, 0,
                [chosen |-> <<>>, closest_length |-> Length2(r),
                 closest_vertex_index |-> -1])
  IN IF use_one_vertex
       THEN IF scan.closest_vertex_index > -1
              THEN <<scan.closest_vertex_index>> ELSE <<>>
       ELSE scan.chosen

\* Variant: the budget one scan short.
BudgetExceededEarly(level, number_of_increments) == level >= number_of_increments

\* level > self.number_of_increments
BudgetExceeded(level, number_of_increments) == level > number_of_increments

\* select_required_verts(vert, rad, level)
RECURSIVE select_required_verts(_, _, _, _, _, _, _, _)
select_required_verts(basis, src_mwi, use_one_vertex, increment_radius, number_of_increments, vert, rad, level) ==
  IF BudgetExceeded(level, number_of_increments) THEN <<>>
  ELSE LET verts == select_vertices(basis, src_mwi, use_one_vertex, vert, rad)
       IN IF Len(verts) = 0
            THEN select_required_verts(basis, src_mwi, use_one_vertex,
                   increment_radius, number_of_increments, vert,
                   rad + increment_radius, level + 1)
            ELSE verts

\* ------------------------------------------------------ shape key store
\* A shape key is [name, data]; key_blocks is a sequence of shape keys, and
\* the empty sequence stands for a mesh whose data.shape_keys is None.
KeyNames(key_blocks) == [i \in 1..Len(key_blocks) |-> key_blocks[i].name]
HasKey(key_blocks, name) == \E i \in 1..Len(key_blocks) : key_blocks[i].name = name

\* The positions a key added by Object.shape_key_add starts with: the mesh's
\* vertex positions for the first key, the basis key's positions afterwards
\* (all key values are 0, so the mix the host copies is the basis pose).
NewKeyData(key_blocks, vertices) ==
  IF Len(key_blocks) = 0 THEN vertices ELSE key_blocks[1].data

\* dest_mesh.shape_key_add(name=...)
shape_key_add(key_blocks, vertices, name) ==
  Append(key_blocks, [name |-> name, data |-> NewKeyData(key_blocks, vertices)])

\* shape keys to ignore
DefaultExcludedKeys == {"Basis", "basis", "Expressions_IDHumans_max"}

\* Variant: insert_sk never cleared.
InsertSkAlways(dest_key_blocks, name) == TRUE

\* insert_sk: no destination key has the source key's name
InsertSk(dest_key_blocks, name) ==
  \A i \in 1..Len(dest_key_blocks) : name # dest_key_blocks[i].name

\* Variants: a listUse condition without one of its tests.
IncludeAddsListed(listUse, excluded_shape_keys, default_excluded_keys, name) ==
  listUse = "include" /\ name \in excluded_shape_keys
ExcludeAddsUnlisted(listUse, excluded_shape_keys, default_excluded_keys, name) ==
  listUse = "exclude" /\ ~(name \in default_excluded_keys)
AllAddsDefaultOnly(listUse, default_excluded_keys, name) ==
  listUse = "all" /\ name \in default_excluded_keys

\* The three listUse conditions under `if insert_sk:`; TRUE when one adds.
IncludeAdds(listUse, excluded_shape_keys, default_excluded_keys, name) ==
  listUse = "include" /\ name \in excluded_shape_keys
                      /\ ~(name \in default_excluded_keys)
ExcludeAdds(listUse, excluded_shape_keys, default_excluded_keys, name) ==
  listUse = "exclude" /\ ~(name \in excluded_shape_keys)
                      /\ ~(name \in default_excluded_keys)
AllAdds(listUse, default_excluded_keys, name) ==
  listUse = "all" /\ ~(name \in default_excluded_keys)

\* One pass of the loop "add missing shape keys to dest_mesh" for one source
\* key; acc is [dest, list]: the destination key_blocks and
\* local_shape_key_list.
AddMissingKey(acc, vertices, listUse, excluded_shape_keys, default_excluded_keys, name) ==
  IF ~InsertSk(acc.dest, name) THEN acc
  ELSE LET add(a) == [dest |-> shape_key_add(a.dest, vertices, name),
                      list |-> Append(a.list, name)]
           a1 == IF IncludeAdds(listUse, excluded_shape_keys, default_excluded_keys, name)
                   THEN add(acc) ELSE acc
       IN IF ExcludeAdds(listUse, excluded_shape_keys, default_excluded_keys, name)
            THEN add(a1)
            ELSE IF AllAdds(listUse, default_excluded_keys, name)
                   THEN add(a1) ELSE a1

\* The whole loop over src_mesh.data.shape_keys.key_blocks, from index i on.
RECURSIVE AddMissingKeys(_, _, _, _, _, _, _)
AddMissingKeys(src_key_blocks, i, acc, vertices, listUse, excluded_shape_keys, default_excluded_keys) ==
  IF i > Len(src_key_blocks) THEN acc
  ELSE AddMissingKeys(src_key_blocks, i + 1,
         AddMissingKey(acc, vertices, listUse, excluded_shape_keys,
                       default_excluded_keys, src_key_blocks[i].name),
         vertices, listUse, excluded_shape_keys, default_excluded_keys)

\* "Check if dest_mesh has any shape key if not create one"
EnsureBasis(dest_key_blocks, vertices) ==
  IF Len(dest_key_blocks) = 0
    THEN shape_key_add(dest_key_blocks, vertices, "Basis")
    ELSE dest_key_blocks

\* ------------------------------------------------------- update_vertex
\* update_global_shapekey_indices: the index of the last key named p_key_name,
\* or the index held before when there is none.
RECURSIVE KeyIndex(_, _, _, _)
KeyIndex(key_blocks, p_key_name, i, found) ==
  IF i > Len(key_blocks) THEN found
  ELSE KeyIndex(key_blocks, p_key_name, i + 1,
                IF key_blocks[i].name = p_key_name THEN i - 1 ELSE found)

\* Variant: only the source index stored.
UpdateSourceIndexOnly(skt, src_key_blocks, dest_key_blocks, p_key_name) ==
  [skt EXCEPT !.src_shape_key_index = KeyIndex(src_key_blocks, p_key_name, 1, @)]

update_global_shapekey_indices(skt, src_key_blocks, dest_key_blocks, p_key_name) ==
  [skt EXCEPT
     !.dest_shape_key_index = KeyIndex(dest_key_blocks, p_key_name, 1, @),
     !.src_shape_key_index = KeyIndex(src_key_blocks, p_key_name, 1, @)]

\* sum of data[v] over the chosen vertices v
RECURSIVE SumPositions(_, _, _)
SumPositions(data, chosen, i) ==
  IF i > Len(chosen) THEN <<0, 0>>
  ELSE VecAdd(data[chosen[i] + 1], SumPositions(data, chosen, i + 1))

\* Variant: no averaging, the first chosen vertex alone.
BlendPositionFirstOnly(src_key_blocks, src_shape_key_index, chosen, current_vertex) ==
  VecAdd(VecSub(src_key_blocks[src_shape_key_index + 1].data[chosen[1] + 1],
                src_key_blocks[1].data[chosen[1] + 1]),
         current_vertex)

\* result_position2 - result_position + self.current_vertex
BlendPosition(src_key_blocks, src_shape_key_index, chosen, current_vertex) ==
  LET result_position ==
        VecDiv(SumPositions(src_key_blocks[1].data, chosen, 1), Len(chosen))
      result_position2 ==
        VecDiv(SumPositions(src_key_blocks[src_shape_key_index + 1].data, chosen, 1),
               Len(chosen))
  IN VecAdd(VecSub(result_position2, result_position), current_vertex)

\* Variant: the slot before the cursor's.
SetPreviousVertexPosition(skt, dest_key_blocks, v_pos) ==
  IF skt.current_vertex_index = 0 THEN dest_key_blocks
  ELSE [dest_key_blocks EXCEPT
          ![skt.dest_shape_key_index + 1].data[skt.current_vertex_index] = v_pos]

\* set_vertex_position(v_pos)
set_vertex_position(skt, dest_key_blocks, v_pos) ==
  [dest_key_blocks EXCEPT
     ![skt.dest_shape_key_index + 1].data[skt.current_vertex_index + 1] = v_pos]

UnmatchedMessage(skt) ==
  [text |-> "Failed to find surrounding vertices | Try increasing increment radius",
   vertex |-> skt.current_vertex_index, key |-> skt.src_shape_key_index]

\* Variants: the unmatched branch returning one value whatever the setting.
UnmatchedReturnNever(skip_vertices_with_no_pair) == FALSE
UnmatchedReturnAlways(skip_vertices_with_no_pair) == TRUE

\* The value update_vertex returns from its unmatched branch.
UnmatchedReturn(skip_vertices_with_no_pair) == ~skip_vertices_with_no_pair

\* The vertex cursor after the unmatched branch.
UnmatchedCursor(current_vertex_index) == current_vertex_index + 1

\* Variant: do_once_per_vertex never cleared.
SearchOnceNoClear(skt, src_key_blocks, dest_key_blocks, dest_matrix_world) ==
  LET cv == MatMul(dest_matrix_world,
                   dest_key_blocks[1].data[skt.current_vertex_index + 1])
  IN IF skt.do_once_per_vertex
       THEN [skt EXCEPT
               !.current_vertex = cv,
               !.src_chosen_vertices =
                  select_required_verts(src_key_blocks[1].data, skt.src_mwi,
                    skt.use_one_vertex, skt.increment_radius,
                    skt.number_of_increments, cv, 0, 0)]
       ELSE skt

\* The "do once per vertex" part of update_vertex.
SearchOnce(skt, src_key_blocks, dest_key_blocks, dest_matrix_world) ==
  IF skt.do_once_per_vertex
    THEN LET cv == MatMul(dest_matrix_world,
                          dest_key_blocks[1].data[skt.current_vertex_index + 1])
         IN [skt EXCEPT
               !.current_vertex = cv,
               !.src_chosen_vertices =
                  select_required_verts(src_key_blocks[1].data, skt.src_mwi,
                    skt.use_one_vertex, skt.increment_radius,
                    skt.number_of_increments, cv, 0, 0),
               !.do_once_per_vertex = FALSE]
    ELSE skt

\* Variant: the first check of update_vertex never taken.
PastLastVertexNever(current_vertex_index, total_vertices) == FALSE

\* self.current_vertex_index >= self.total_vertices
PastLastVertex(current_vertex_index, total_vertices) ==
  current_vertex_index >= total_vertices

\* update_vertex: [skt, dest, ret] after the call, and `at`: the vertex index
\* the body ran with, or -1 when the call returned at its first check.
update_vertex(skt, src_key_blocks, dest_key_blocks, dest_matrix_world) ==
  IF PastLastVertex(skt.current_vertex_index, skt.total_vertices)
    THEN [skt |-> skt, dest |-> dest_key_blocks, ret |-> FALSE, at |-> -1]
    ELSE LET s1 == SearchOnce(skt, src_key_blocks, dest_key_blocks, dest_matrix_world)
         IN IF Len(s1.src_chosen_vertices) = 0
              THEN [skt |-> [s1 EXCEPT
                               !.message = UnmatchedMessage(s1),
                               !.current_vertex_index = UnmatchedCursor(@)],
                    dest |-> dest_key_blocks,
                    ret |-> UnmatchedReturn(s1.skip_vertices_with_no_pair),
                    at |-> skt.current_vertex_index]
              ELSE [skt |-> s1,
                    dest |-> set_vertex_position(s1, dest_key_blocks,
                               BlendPosition(src_key_blocks, s1.src_shape_key_index,
                                             s1.src_chosen_vertices, s1.current_vertex)),
                    ret |-> FALSE,
                    at |-> skt.current_vertex_index]

\* ------------------------------------------------------------- state
VARIABLES
  src_key_blocks,      \* source mesh: data.shape_keys.key_blocks
  src_matrix_world,    \* source object: matrix_world
  dest_vertices,       \* destination mesh: data.vertices (positions)
  dest_key_blocks,     \* destination mesh: data.shape_keys.key_blocks
  dest_matrix_world,   \* destination object: matrix_world
  listUse,             \* bpy.types.Scene.listUse
  customshapekeylist,  \* bpy.types.Scene.customshapekeylist (item names)
  props,               \* the transfer operator's properties
  SKT,                 \* the ShapeKeyTransfer instance
  pc,                  \* where transfer_shape_keys stands
  local_shape_key_list,\* transfer_shape_keys: local_shape_key_list
  key_iter,            \* position of `for key_name in local_shape_key_list`
  result,              \* what the last transfer_shape_keys call returned
  calls,               \* operator calls made so far
  last_op,             \* history: "copy", "transfer" or "clear", the last operator called
  pre_key_blocks,      \* history: dest_key_blocks when the current call began
  pre_src_key_blocks,  \* history: src_key_blocks when the current call began
  prev_passed,         \* history: the call before the current one passed the checks
  searched,            \* history: vertex indices searched by the current call
  entered,             \* history: vertex indices update_vertex's body ran with
  written,             \* history: <<key index, vertex index>> slots written
  rad,                 \* select_required_verts: rad of the pending call
  level,               \* select_required_verts: level of the pending call
  scans,               \* history: select_vertices calls of the current search
  last_scan            \* history: <<radius, result>> of the last select_vertices

vars == <<src_key_blocks, src_matrix_world, dest_vertices, dest_key_blocks,
          dest_matrix_world, listUse, customshapekeylist, props, SKT, pc,
          local_shape_key_list, key_iter, result, calls, last_op,
          pre_key_blocks, pre_src_key_blocks, prev_passed, searched, entered, written,
          rad, level, scans, last_scan>>

meshes == <<src_key_blocks, src_matrix_world, dest_vertices, dest_matrix_world>>
search == <<rad, level, scans, last_scan>>
\* What only the start of a call sets.
at_call == <<calls, last_op, pre_key_blocks, pre_src_key_blocks, prev_passed>>

\* ------------------------------------------------------- initial scenes
DefaultIncrementRadius == 1
DefaultNumberOfIncrements == 20

NoMessage == [text |-> "", vertex |-> -1, key |-> -1]
Message(text) == [text |-> text, vertex |-> -1, key |-> -1]

\* ShapeKeyTransfer.__init__
NewShapeKeyTransfer ==
  [increment_radius |-> DefaultIncrementRadius,
   number_of_increments |-> DefaultNumberOfIncrements,
   current_vertex_index |-> 0,
   total_vertices |-> 0,
   use_one_vertex |-> TRUE,
   excluded_shape_keys |-> DefaultExcludedKeys,
   dest_mesh |-> "None",
   src_mesh |-> "None",
   src_mwi |-> NoMatrix,
   dest_shape_key_index |-> 0,
   src_shape_key_index |-> 0,
   do_once_per_vertex |-> FALSE,
   current_vertex |-> <<>>,
   src_chosen_vertices |-> <<>>,
   message |-> NoMessage,
   skip_vertices_with_no_pair |-> FALSE]

\* The source mesh of the scenes: vertex i at <<0, 2 * Unit * i>>, and the
\* keys Basis, Smile, Expressions_IDHumans_max and Frown, each displaced key
\* moving every vertex by its own multiple of Unit.
SrcBasis == [i \in 1..MaxSrcVerts |-> <<0, 2 * Unit * (i - 1)>>]
Displaced(data, dx, dz) ==
  [i \in 1..Len(data) |-> VecAdd(data[i], <<dx * Unit * i, dz * Unit * i>>)]
SrcKeyBlocks ==
  << [name |-> "Basis", data |-> SrcBasis],
     [name |-> "Smile", data |-> Displaced(SrcBasis, 1, 0)],
     [name |-> "Expressions_IDHumans_max", data |-> Displaced(SrcBasis, 1, 1)],
     [name |-> "Frown", data |-> Displaced(SrcBasis, 0, -1)] >>

\* Destination vertices, in local space: at the origin or out of reach of every
\* radius the bounds allow.  Under the identity the origin lies on source
\* vertex 0; the translation of DestMatrices moves it midway between source
\* vertices 0 and 1.
FarPoint == <<(MaxIncrements + 3) * 2 * Unit, 0>>
DestPoints == {<<0, 0>>, FarPoint}
DestVertexLists == UNION {[1..n -> DestPoints] : n \in 1..MaxDestVerts}

\* The destination either has no shape keys or already holds Basis and an
\* edited Smile.
DestKeyBlocks(vertices) ==
  { <<>>,
    << [name |-> "Basis", data |-> vertices],
       [name |-> "Smile", data |-> Displaced(vertices, 0, 1)] >> }

IncrementRadii == {Unit}
SrcMatrices == {IdentityMatrix}
DestMatrices == {IdentityMatrix, [n |-> <<1, 1>>, d |-> <<1, 1>>, t |-> <<0, Unit>>]}
ListUses == {"all", "include", "exclude"}
\* The shape key list is empty or names a source key and a default excluded one.
KeyLists == {<<>>, <<"Smile", "Expressions_IDHumans_max">>}

Props ==
  [increment_radius : IncrementRadii,
   use_one_vertex : BOOLEAN,
   skip_unpaired_vertices : BOOLEAN,
   number_of_increments : {0, MaxIncrements}]

Init ==
  /\ src_key_blocks \in {<<>>, SrcKeyBlocks}
  /\ src_matrix_world \in SrcMatrices
  /\ dest_vertices \in DestVertexLists
  /\ dest_key_blocks \in DestKeyBlocks(dest_vertices)
  /\ dest_matrix_world \in DestMatrices
  /\ listUse \in ListUses
  /\ customshapekeylist \in KeyLists
  /\ props \in Props
  /\ SKT = NewShapeKeyTransfer
  /\ pc = "idle"
  /\ local_shape_key_list = <<>>
  /\ key_iter = 0
  /\ result = "none"
  /\ calls = 0
  /\ last_op = "none"
  /\ pre_key_blocks = dest_key_blocks
  /\ pre_src_key_blocks = src_key_blocks
  /\ prev_passed = FALSE
  /\ searched = <<>>
  /\ entered = {}
  /\ written = {}
  /\ rad = 0
  /\ level = 0
  /\ scans = 0
  /\ last_scan = <<>>

\* --------------------------------------------------- transfer_shape_keys
\* update_shape_keys_list: the item names, duplicates removed
update_shape_keys_list(skt, excluded_keys) ==
  [skt EXCEPT !.excluded_shape_keys = {excluded_keys[i] : i \in 1..Len(excluded_keys)}]

\* get_parent(mesh): the object whose data the mesh is, or None
get_parent(mesh, has_parent) == IF has_parent THEN mesh ELSE "None"

\* The operator's execute up to the call of transfer_shape_keys.
ConfigureSKT(skt, copy_only) ==
  update_shape_keys_list(
    IF copy_only THEN skt
    ELSE [skt EXCEPT
            !.increment_radius = props.increment_radius,
            !.use_one_vertex = props.use_one_vertex,
            !.skip_vertices_with_no_pair = props.skip_unpaired_vertices,
            !.number_of_increments = props.number_of_increments],
    customshapekeylist)

\* Variant: copy_only not looked at.
CopyOnlyIgnored(copy_only) == FALSE

\* Whether transfer_shape_keys returns at `if copy_only:`.
CopyOnlyReturns(copy_only) == copy_only

\* transfer_shape_keys from its first line to the head of the while loop:
\* [skt, dest, list, pc, result].
TransferStart(skt, copy_only, src_parent, dest_parent) ==
  LET s1 == [skt EXCEPT !.src_mesh = get_parent("src", src_parent),
                        !.dest_mesh = get_parent("dest", dest_parent)]
      s2 == [s1 EXCEPT !.src_mwi = Inverted(src_matrix_world),
                       !.current_vertex_index = 0]
      s3 == [s2 EXCEPT !.total_vertices = Len(dest_vertices)]
      acc == AddMissingKeys(src_key_blocks, 1,
               [dest |-> EnsureBasis(dest_key_blocks, dest_vertices), list |-> <<>>],
               dest_vertices, listUse, s3.excluded_shape_keys, DefaultExcludedKeys)
      out(s, d, l, p, r) == [skt |-> s, dest |-> d, list |-> l, pc |-> p, result |-> r]
  IN IF s1.src_mesh = "None"
       \* None has no matrix_world: AttributeError
       THEN out(s1, dest_key_blocks, <<>>, "idle", "raised")
     ELSE IF s2.dest_mesh = "None"
       THEN out([s2 EXCEPT !.message = Message("The meshes are not valid!")],
                dest_key_blocks, <<>>, "idle", "False")
     ELSE IF Len(src_key_blocks) = 0
       THEN out([s3 EXCEPT !.message =
                   Message("There are no Shape Keys in the source mesh!")],
                dest_key_blocks, <<>>, "idle", "False")
     ELSE IF CopyOnlyReturns(copy_only)
       THEN out([s3 EXCEPT !.message = Message("Success")],
                acc.dest, acc.list, "idle", "True")
     ELSE out(s3, acc.dest, acc.list, "while", "none")

\* CopyShapeKeys.execute (copy_only) and TransferShapeKeyOperator.execute
Execute(copy_only, src_parent, dest_parent) ==
  /\ pc = "idle"
  /\ calls < MaxCalls
  /\ \E o \in {TransferStart(ConfigureSKT(SKT, copy_only), copy_only,
                              src_parent, dest_parent)} :
        /\ SKT' = o.skt
        /\ dest_key_blocks' = o.dest
        /\ local_shape_key_list' = o.list
        /\ pc' = o.pc
        /\ result' = o.result
  /\ calls' = calls + 1
  /\ last_op' = IF copy_only THEN "copy" ELSE "transfer"
  /\ key_iter' = 0
  /\ pre_key_blocks' = dest_key_blocks
  /\ pre_src_key_blocks' = src_key_blocks
  /\ prev_passed' = /\ last_op \in {"copy", "transfer"}
                     /\ SKT.src_mesh # "None" /\ SKT.dest_mesh # "None"
                     /\ Len(src_key_blocks) # 0
  /\ searched' = <<>>
  /\ entered' = {}
  /\ written' = {}
  /\ UNCHANGED <<meshes, search, listUse, customshapekeylist, props>>

\* The meshes picked in the panel: at most one of them has no parent object.
Parents == {<<TRUE, TRUE>>, <<FALSE, TRUE>>, <<TRUE, FALSE>>}

CopyShapeKeys == \E p \in Parents : Execute(TRUE, p[1], p[2])

TransferShapeKeyOperator == \E p \in Parents : Execute(FALSE, p[1], p[2])

\* CUSTOM_OT_clearList: poll and execute
ClearList ==
  /\ pc = "idle"
  /\ customshapekeylist # <<>>
  /\ customshapekeylist' = <<>>
  /\ last_op' = "clear"
  /\ UNCHANGED <<meshes, search, dest_key_blocks, listUse, props, SKT, pc,
                 local_shape_key_list, key_iter, result, calls, pre_key_blocks,
                 pre_src_key_blocks, prev_passed, searched, entered, written>>

\* `while(self.current_vertex_index < self.total_vertices)`, and the two
\* lines after the loop
WhileTest ==
  /\ pc = "while"
  /\ IF SKT.current_vertex_index < SKT.total_vertices
       THEN /\ SKT' = [SKT EXCEPT !.do_once_per_vertex = TRUE]
            /\ key_iter' = 1
            /\ pc' = "for"
            /\ UNCHANGED result
       ELSE /\ SKT' = [SKT EXCEPT !.message =
                         Message("Transferred Shape Keys successfully!")]
            /\ result' = "True"
            /\ pc' = "idle"
            /\ UNCHANGED key_iter
  /\ UNCHANGED <<meshes, search, at_call, dest_key_blocks, listUse,
                 customshapekeylist, props, local_shape_key_list, searched,
                 entered, written>>

\* One pass of `for key_name in local_shape_key_list`
ForKey ==
  /\ pc = "for"
  /\ key_iter <= Len(local_shape_key_list)
  /\ \E s0 \in {update_global_shapekey_indices(SKT, src_key_blocks, dest_key_blocks,
                     local_shape_key_list[key_iter])} :
     \E o \in {update_vertex(s0, src_key_blocks, dest_key_blocks, dest_matrix_world)} :
        /\ SKT' = o.skt
        /\ dest_key_blocks' = o.dest
        /\ entered' = IF o.at >= 0 THEN entered \cup {o.at} ELSE entered
        /\ searched' = IF o.at >= 0 /\ s0.do_once_per_vertex
                         THEN Append(searched, o.at)
                         ELSE searched
        /\ written' = IF o.at >= 0 /\ Len(o.skt.src_chosen_vertices) # 0
                        THEN written \cup {<<s0.dest_shape_key_index, o.at>>}
                        ELSE written
        /\ IF o.ret
             THEN pc' = "idle" /\ result' = "False" /\ UNCHANGED key_iter
             ELSE pc' = "for" /\ key_iter' = key_iter + 1 /\ UNCHANGED result
  /\ UNCHANGED <<meshes, search, at_call, listUse, customshapekeylist, props,
                 local_shape_key_list>>

\* Variant: the cursor left where it is.
NextVertexStays(current_vertex_index) == current_vertex_index

\* The cursor after the for loop of one pass of the while loop.
NextVertex(current_vertex_index) == current_vertex_index + 1

\* `self.current_vertex_index += 1` after the for loop
ForEnd ==
  /\ pc = "for"
  /\ key_iter > Len(local_shape_key_list)
  /\ SKT' = [SKT EXCEPT !.current_vertex_index = NextVertex(@)]
  /\ pc' = "while"
  /\ UNCHANGED <<meshes, search, at_call, dest_key_blocks, listUse,
                 customshapekeylist, props, local_shape_key_list, key_iter, result,
                 searched, entered, written>>

Next ==
  \/ CopyShapeKeys
  \/ TransferShapeKeyOperator
  \/ ClearList
  \/ WhileTest
  \/ ForKey
  \/ ForEnd

Spec == Init /\ [][Next]_vars

\* A transfer is inside its main loop.
InLoop == pc \in {"while", "for"}
\* A step of the main loop.
LoopStep == WhileTest \/ ForKey \/ ForEnd
\* The guard of ForKey: a pass of the key loop is due.
KeyPending == pc = "for" /\ key_iter <= Len(local_shape_key_list)
\* Weak fairness of ForKey, with ENABLED <<ForKey>>_vars written out as the
\* guard of ForKey (every ForKey step changes key_iter or pc).
ForKeyFairness == []<>(~KeyPending) \/ []<><<ForKey>>_vars
\* A call that has begun runs on statement by statement until it returns: each
\* step of the loops is taken when it is due.
SpecLive == Spec /\ WF_vars(WhileTest) /\ ForKeyFairness /\ WF_vars(ForEnd)

\* ------------------------------------- the search alone, as it recurses
\* Source basis vertices, search centres and source transforms of the search
\* scenes: coincident, equidistant and scaled cases among them.
SearchPoints == {<<0, 0>>, <<0, 2 * Unit>>, <<2 * Unit, 0>>, <<Unit, Unit>>}
SearchBases == UNION {[1..n -> SearchPoints] : n \in 1..MaxSrcVerts}
SearchCentres == {<<0, 0>>, <<0, Unit>>, <<Unit, 0>>, FarPoint}
SearchMatrices ==
  { IdentityMatrix,
    [n |-> <<1, 1>>, d |-> <<1, 2>>, t |-> <<0, Unit>>],
    [n |-> <<1, 1>>, d |-> <<2, 1>>, t |-> <<0, 0>>] }
SearchRadii == {1, Unit, 2 * Unit}

\* update_vertex is about to call select_required_verts(current_vertex, 0).
SearchInit ==
  /\ \E basis \in SearchBases : src_key_blocks = <<[name |-> "Basis", data |-> basis]>>
  /\ src_matrix_world \in SearchMatrices
  /\ \E centre \in SearchCentres, inc \in SearchRadii,
        n \in 0..MaxIncrements, one \in BOOLEAN :
       SKT = [NewShapeKeyTransfer EXCEPT
                !.src_mesh = "src",
                !.src_mwi = Inverted(src_matrix_world),
                !.current_vertex = centre,
                !.increment_radius = inc,
                !.number_of_increments = n,
                !.use_one_vertex = one,
                !.do_once_per_vertex = TRUE]
  /\ dest_vertices = <<>>
  /\ dest_key_blocks = <<>>
  /\ dest_matrix_world = IdentityMatrix
  /\ listUse = "all"
  /\ customshapekeylist = <<>>
  /\ props = [increment_radius |-> SKT.increment_radius,
              use_one_vertex |-> SKT.use_one_vertex,
              skip_unpaired_vertices |-> FALSE,
              number_of_increments |-> SKT.number_of_increments]
  /\ pc = "select"
  /\ local_shape_key_list = <<>>
  /\ key_iter = 0
  /\ result = "none"
  /\ calls = 0
  /\ last_op = "none"
  /\ pre_key_blocks = <<>>
  /\ pre_src_key_blocks = src_key_blocks
  /\ prev_passed = FALSE
  /\ searched = <<>>
  /\ entered = {}
  /\ written = {}
  /\ rad = 0
  /\ level = 0
  /\ scans = 0
  /\ last_scan = <<>>

\* One call of select_required_verts(vert, rad, level): it returns, or it
\* calls itself with the radius widened.
SelectRequiredVerts ==
  /\ pc = "select"
  /\ IF BudgetExceeded(level, SKT.number_of_increments)
       THEN /\ SKT' = [SKT EXCEPT !.src_chosen_vertices = <<>>,
                                  !.do_once_per_vertex = FALSE]
            /\ pc' = "returned"
            /\ UNCHANGED <<rad, level, scans, last_scan>>
       ELSE LET verts == select_vertices(src_key_blocks[1].data, SKT.src_mwi,
                           SKT.use_one_vertex, SKT.current_vertex, rad)
            IN /\ last_scan' = <<rad, verts>>
               /\ scans' = scans + 1
               /\ IF Len(verts) = 0
                    THEN /\ rad' = rad + SKT.increment_radius
                         /\ level' = level + 1
                         /\ UNCHANGED <<SKT, pc>>
                    ELSE /\ SKT' = [SKT EXCEPT !.src_chosen_vertices = verts,
                                               !.do_once_per_vertex = FALSE]
                         /\ pc' = "returned"
                         /\ UNCHANGED <<rad, level>>
  /\ UNCHANGED <<meshes, at_call, dest_key_blocks, listUse, customshapekeylist,
                 props, local_shape_key_list, key_iter, result, searched, entered,
                 written>>

SearchNext == SelectRequiredVerts

SpecSearch == SearchInit /\ [][SearchNext]_vars

\* =============================================================== claims
\* A call of transfer_shape_keys has returned (or raised).
Returned == pc = "idle" /\ last_op \in {"copy", "transfer"}
\* The call got past the precondition checks of transfer_shape_keys.
PassedChecks ==
  /\ last_op \in {"copy", "transfer"}
  /\ SKT.src_mesh # "None" /\ SKT.dest_mesh # "None"
  /\ Len(src_key_blocks) # 0
TransferReturned == Returned /\ last_op = "transfer" /\ PassedChecks
SuccessMessage == Message("Transferred Shape Keys successfully!")

VertexIndices == 0..(Len(dest_vertices) - 1)
\* The destination's basis positions when the call began.
BasisAtCall ==
  IF Len(pre_key_blocks) = 0 THEN dest_vertices ELSE pre_key_blocks[1].data
\* World position of destination vertex i.
WorldPosition(i) == MatMul(dest_matrix_world, BasisAtCall[i + 1])
\* No source basis vertex lies within `radius` (a world length, measured in
\* the source's local metric) of destination vertex i.
NoSourceWithin(i, radius) ==
  LET mwi == Inverted(src_matrix_world)
      lco == MatMul(mwi, WorldPosition(i))
      r == VecSub(MatMul(mwi, VecAdd(WorldPosition(i), <<0, radius>>)), lco)
      basis == src_key_blocks[1].data
  IN \A v \in 1..Len(basis) : Length2(VecSub(basis[v], lco)) > Length2(r)
\* The correspondence set of destination vertex i under the call's settings.
Correspondence(i) ==
  select_required_verts(src_key_blocks[1].data, Inverted(src_matrix_world),
    SKT.use_one_vertex, SKT.increment_radius, SKT.number_of_increments,
    WorldPosition(i), 0, 0)
\* The blended position of vertex i in the key named `name`.
Blended(i, name) ==
  BlendPosition(src_key_blocks, KeyIndex(src_key_blocks, name, 1, 0),
                Correspondence(i), WorldPosition(i))
\* The position slot i of destination key k (1-based) had before blending:
\* the one it held when the call began, or the basis one it was created with.
StartPosition(k, i) ==
  IF k <= Len(pre_key_blocks) THEN pre_key_blocks[k].data[i + 1]
  ELSE BasisAtCall[i + 1]
Worklist == {local_shape_key_list[j] : j \in 1..Len(local_shape_key_list)}
DestKey(name) == dest_key_blocks[KeyIndex(dest_key_blocks, name, 1, 0) + 1]
Min(S) == CHOOSE x \in S : \A y \in S : x <= y

\* C1: after a transfer with skip_vertices_with_no_pair set, every destination
\* vertex with a non-empty correspondence set holds its blended position in
\* every key of the worklist.
C1_SkipContinuesWithNextVertex ==
  (TransferReturned /\ SKT.skip_vertices_with_no_pair /\ result = "True") =>
    \A i \in VertexIndices : Correspondence(i) # <<>> =>
      \A name \in Worklist : DestKey(name).data[i + 1] = Blended(i, name)

\* C2 as stated: without skipping, a vertex with no source vertex within
\* increment_radius * (number_of_increments + 1) makes the transfer return
\* False naming the first such vertex, and nothing beyond it is touched.
FarVertices ==
  {i \in VertexIndices :
     NoSourceWithin(i, SKT.increment_radius * (SKT.number_of_increments + 1))}
C2_AbortNamesFirstFarVertex ==
  (TransferReturned /\ ~SKT.skip_vertices_with_no_pair /\ FarVertices # {}) =>
    /\ result = "False"
    /\ SKT.message.vertex = Min(FarVertices)
    /\ \A j \in 1..Len(searched) : searched[j] <= Min(FarVertices)
    /\ \A w \in written : w[2] < Min(FarVertices)

\* C2 amended: with a non-empty worklist and without skipping, a vertex with
\* no source vertex within increment_radius * number_of_increments (the
\* largest radius scanned) makes the transfer return False with the message
\* naming the first such vertex; no vertex beyond it is searched or written.
UnmatchedVertices ==
  {i \in VertexIndices :
     NoSourceWithin(i, SKT.increment_radius * SKT.number_of_increments)}
C2_AbortNamesFirstUnmatchedVertex ==
  (TransferReturned /\ ~SKT.skip_vertices_with_no_pair
     /\ local_shape_key_list # <<>> /\ UnmatchedVertices # {}) =>
    /\ result = "False"
    /\ SKT.message.text =
         "Failed to find surrounding vertices | Try increasing increment radius"
    /\ SKT.message.vertex = Min(UnmatchedVertices)
    /\ \A j \in 1..Len(searched) : searched[j] <= Min(UnmatchedVertices)
    /\ \A w \in written : w[2] < Min(UnmatchedVertices)
\* An abort on a vertex that is not the first: the ones before it were written.
C2_Witness ==
  /\ TransferReturned /\ ~SKT.skip_vertices_with_no_pair
  /\ local_shape_key_list # <<>>
  /\ UnmatchedVertices # {} /\ Min(UnmatchedVertices) > 0
  /\ result = "False" /\ written # {}

\* C3: with skipping, the transfer returns True with the success message, and
\* a vertex with no source vertex within
\* increment_radius * (number_of_increments + 1) keeps, in every destination
\* key, the position it had or was created with.
C3_SkippedVertexUnchanged ==
  (TransferReturned /\ SKT.skip_vertices_with_no_pair /\ FarVertices # {}) =>
    /\ result = "True"
    /\ SKT.message = SuccessMessage
    /\ \A i \in FarVertices : \A k \in 1..Len(dest_key_blocks) :
         dest_key_blocks[k].data[i + 1] = StartPosition(k, i)
\* A far vertex was searched and skipped, and another vertex was written.
C3_Witness ==
  /\ TransferReturned /\ SKT.skip_vertices_with_no_pair
  /\ \E j \in 1..Len(searched) : searched[j] \in FarVertices
  /\ result = "True" /\ written # {}

\* ------------------------------------------------------- provisioning
\* Provisioning has run in the current call.
Provisioned == PassedChecks
SrcNames == {src_key_blocks[j].name : j \in 1..Len(src_key_blocks)}
ListedKeys == {customshapekeylist[j] : j \in 1..Len(customshapekeylist)}
\* The inclusion policy of the mode, for a key that is not default excluded.
ModeCondition(name) ==
  \/ listUse = "all"
  \/ listUse = "include" /\ name \in ListedKeys
  \/ listUse = "exclude" /\ name \notin ListedKeys
PassesPolicy(name) == name \notin DefaultExcludedKeys /\ ModeCondition(name)
Occurrences(key_blocks, name) ==
  Cardinality({j \in 1..Len(key_blocks) : key_blocks[j].name = name})
\* The names of seq that satisfy Keep, in order.
RECURSIVE KeptNames(_, _, _)
KeptNames(names, Keep(_), j) ==
  IF j > Len(names) THEN <<>>
  ELSE IF Keep(names[j]) THEN <<names[j]>> \o KeptNames(names, Keep, j + 1)
  ELSE KeptNames(names, Keep, j + 1)
\* The destination key names once a missing basis has been created.
NamesAtCall ==
  IF Len(pre_key_blocks) = 0 THEN <<"Basis">> ELSE KeyNames(pre_key_blocks)

\* C4 as stated: a source key already on the destination that passes the
\* inclusion policy is in the worklist.
C4_ExistingKeyInWorklist ==
  Provisioned =>
    \A name \in SrcNames :
      (HasKey(pre_key_blocks, name) /\ PassesPolicy(name)) => name \in Worklist

\* C4 amended: a source key already on the destination is not created again
\* and is not in the worklist, and the call leaves its positions as they were.
C4_ExistingKeyLeftAlone ==
  Provisioned =>
    \A k \in 1..Len(pre_key_blocks) :
      pre_key_blocks[k].name \in SrcNames =>
        /\ pre_key_blocks[k].name \notin Worklist
        /\ Occurrences(dest_key_blocks, pre_key_blocks[k].name) = 1
        /\ dest_key_blocks[k] = pre_key_blocks[k]
\* A transfer that follows a copy_only call: Frown, created by the copy, still
\* holds the basis positions although some vertex has a correspondence.
C4_Witness ==
  /\ TransferReturned /\ calls = 2 /\ result = "True"
  /\ PassesPolicy("Frown") /\ HasKey(pre_key_blocks, "Frown")
  /\ DestKey("Frown").data = BasisAtCall
  /\ \E i \in VertexIndices : Correspondence(i) # <<>>

\* C5: on an unresolved source or destination mesh, or a source without
\* shape keys, the call returns False with a message, raises nothing and
\* leaves the destination's shape keys as they were.
InvalidInput ==
  \/ SKT.src_mesh = "None"
  \/ SKT.dest_mesh = "None"
  \/ Len(src_key_blocks) = 0
C5_InvalidInputReported ==
  (Returned /\ InvalidInput) =>
    /\ result = "False"
    /\ SKT.message.text \in {"The meshes are not valid!",
                             "There are no Shape Keys in the source mesh!"}
    /\ dest_key_blocks = pre_key_blocks

\* C6: in every mode and for every list, a default excluded key is never
\* created (the missing basis apart), never in the worklist and never written.
C6_DefaultExcludedNeverTransferred ==
  /\ \A name \in Worklist : name \notin DefaultExcludedKeys
  /\ \A k \in (Len(pre_key_blocks) + 1)..Len(dest_key_blocks) :
       dest_key_blocks[k].name \in DefaultExcludedKeys =>
         (k = 1 /\ dest_key_blocks[k].name = "Basis")
  /\ \A w \in written : dest_key_blocks[w[1] + 1].name \notin DefaultExcludedKeys
\* A transfer in mode include whose list names a default excluded key.
C6_Witness ==
  /\ TransferReturned /\ listUse = "include"
  /\ "Expressions_IDHumans_max" \in ListedKeys
  /\ "Expressions_IDHumans_max" \in SrcNames
  /\ local_shape_key_list = <<"Smile">> /\ written # {}

\* C7: provisioning returns, in source order, exactly the source keys that are
\* not on the destination, not default excluded and pass the mode's condition,
\* and it creates exactly those keys (a missing basis apart).
MustInsert(name) == ~HasKey(pre_key_blocks, name) /\ PassesPolicy(name)
C7_ProvisioningWorklist ==
  Provisioned =>
    /\ local_shape_key_list = KeptNames(KeyNames(src_key_blocks), MustInsert, 1)
    /\ KeyNames(dest_key_blocks) = NamesAtCall \o local_shape_key_list
\* Mode exclude with Smile listed: only Frown is created.
C7_Witness ==
  /\ Provisioned /\ listUse = "exclude" /\ "Smile" \in ListedKeys
  /\ pre_key_blocks = <<>>
  /\ local_shape_key_list = <<"Frown">>
  /\ KeyNames(dest_key_blocks) = <<"Basis", "Frown">>

\* C8: no destination key name is ever duplicated, and after provisioning in
\* mode all every source key that is not default excluded is on the
\* destination exactly once, whatever calls came before.
C8_AllModeKeysOnce ==
  /\ \A k \in 1..Len(dest_key_blocks) :
       Occurrences(dest_key_blocks, dest_key_blocks[k].name) = 1
  /\ (Provisioned /\ listUse = "all") =>
       \A name \in SrcNames \ DefaultExcludedKeys :
         Occurrences(dest_key_blocks, name) = 1
\* A second call in mode all on a destination that began as [Basis, Smile].
C8_Witness ==
  /\ Provisioned /\ listUse = "all" /\ calls = 2 /\ Returned
  /\ KeyNames(dest_key_blocks) = <<"Basis", "Smile", "Frown">>
  /\ local_shape_key_list = <<>>

\* C9: a copy_only call that passes the checks returns True, searches and
\* writes nothing, keeps every key the destination had, and every key it
\* creates holds the destination's basis position at every vertex.
C9_CopyOnlyNoBlend ==
  (Returned /\ last_op = "copy" /\ PassedChecks) =>
    /\ result = "True"
    /\ SKT.message = Message("Success")
    /\ searched = <<>> /\ written = {}
    /\ \A k \in 1..Len(pre_key_blocks) : dest_key_blocks[k] = pre_key_blocks[k]
    /\ \A k \in (Len(pre_key_blocks) + 1)..Len(dest_key_blocks) :
         dest_key_blocks[k].data = BasisAtCall
    /\ local_shape_key_list = KeptNames(KeyNames(src_key_blocks), MustInsert, 1)
\* A copy_only call that created two keys.
C9_Witness ==
  /\ Returned /\ last_op = "copy" /\ PassedChecks
  /\ pre_key_blocks = <<>>
  /\ local_shape_key_list = <<"Smile", "Frown">>
  /\ KeyNames(dest_key_blocks) = <<"Basis", "Smile", "Frown">>

\* ------------------------------------------------------------- search
\* The scan that last_scan records: its sphere in the source's local space.
ScanCentre == MatMul(SKT.src_mwi, SKT.current_vertex)
ScanRadius2 ==
  Length2(VecSub(MatMul(SKT.src_mwi, VecAdd(SKT.current_vertex, <<0, last_scan[1]>>)),
                 ScanCentre))
Distance2(v) == Length2(VecSub(src_key_blocks[1].data[v + 1], ScanCentre))
InRange == {v \in 0..(Len(src_key_blocks[1].data) - 1) : Distance2(v) <= ScanRadius2}
Nearest == {v \in InRange : \A u \in InRange : Distance2(v) <= Distance2(u)}
Scanned == last_scan # <<>> /\ SKT.use_one_vertex

\* C10 as stated: with use_one_vertex, select_vertices returns at most one
\* index, a nearest in-range vertex, and on a tie the lowest index.
C10_NearestLowestIndex ==
  Scanned =>
    /\ Len(last_scan[2]) <= 1
    /\ Len(last_scan[2]) = 1 =>
         /\ last_scan[2][1] \in Nearest
         /\ \A v \in Nearest : last_scan[2][1] <= v

\* C10 amended: with use_one_vertex, select_vertices returns no index when no
\* vertex is in range and otherwise one index, a nearest in-range vertex, and
\* on a tie the highest index (the last one the scan meets).
C10_NearestHighestIndex ==
  Scanned =>
    /\ Len(last_scan[2]) = (IF InRange = {} THEN 0 ELSE 1)
    /\ Len(last_scan[2]) = 1 =>
         /\ last_scan[2][1] \in Nearest
         /\ \A v \in Nearest : last_scan[2][1] >= v
\* Two in-range vertices at different places and the same least distance, and
\* a third farther one.
C10_Witness ==
  /\ Scanned /\ Cardinality(Nearest) = 2 /\ Cardinality(InRange) > 2
  /\ \E u, v \in Nearest : src_key_blocks[1].data[u + 1] # src_key_blocks[1].data[v + 1]
  /\ Len(last_scan[2]) = 1
  /\ \E v \in Nearest : v < last_scan[2][1]

\* The source vertices in range of the search centre at world radius `radius`:
\* local-space distance to the local centre within the local radius.
InRangeAt(radius) ==
  {v \in 0..(Len(src_key_blocks[1].data) - 1) :
     Distance2(v) <=
       Length2(VecSub(MatMul(SKT.src_mwi, VecAdd(SKT.current_vertex, <<0, radius>>)),
                      ScanCentre))}
\* The indices of S below n, ascending from v.
RECURSIVE Ascending(_, _, _)
Ascending(S, n, v) ==
  IF v >= n THEN <<>>
  ELSE IF v \in S THEN <<v>> \o Ascending(S, n, v + 1)
  ELSE Ascending(S, n, v + 1)
\* The retries (radius indices) whose in-range set is not empty.
Hits ==
  {k \in 0..SKT.number_of_increments : InRangeAt(k * SKT.increment_radius) # {}}
SearchReturned == pc = "returned"

\* C11: the search scans radius 0, then increment_radius more per retry, and
\* makes at most number_of_increments + 1 scans; every scan before the one it
\* returns from found nothing in range; it returns the result of the first
\* radius k * increment_radius (0 <= k <= number_of_increments) with a vertex
\* in range (all of them in index order, or the nearest one with
\* use_one_vertex), and returns the empty sequence exactly when no source
\* vertex is in range at number_of_increments * increment_radius.
C11_ExpandingRadius ==
  /\ rad = level * SKT.increment_radius
  /\ scans <= SKT.number_of_increments + 1
  /\ scans = (IF SearchReturned /\ SKT.src_chosen_vertices # <<>>
                THEN level + 1 ELSE level)
  /\ \A k \in 0..(level - 1) : InRangeAt(k * SKT.increment_radius) = {}
  /\ SearchReturned =>
       /\ (SKT.src_chosen_vertices = <<>>) <=>
            (InRangeAt(SKT.number_of_increments * SKT.increment_radius) = {})
       /\ SKT.src_chosen_vertices = <<>> => scans = SKT.number_of_increments + 1
       /\ SKT.src_chosen_vertices # <<>> =>
            LET first == InRangeAt(Min(Hits) * SKT.increment_radius)
            IN /\ level = Min(Hits)
               /\ last_scan = <<Min(Hits) * SKT.increment_radius, SKT.src_chosen_vertices>>
               /\ IF SKT.use_one_vertex
                    THEN /\ Len(SKT.src_chosen_vertices) = 1
                         /\ SKT.src_chosen_vertices[1] \in first
                         /\ \A u \in first :
                              Distance2(SKT.src_chosen_vertices[1]) <= Distance2(u)
                    ELSE SKT.src_chosen_vertices =
                           Ascending(first, Len(src_key_blocks[1].data), 0)
\* A search that found two vertices after retrying with a wider radius.
C11_Witness ==
  /\ SearchReturned /\ ~SKT.use_one_vertex
  /\ level = SKT.number_of_increments /\ level >= 1
  /\ scans = level + 1
  /\ Len(SKT.src_chosen_vertices) >= 2
  /\ Cardinality(InRangeAt((level - 1) * SKT.increment_radius)) = 0

\* C12: with identity transforms, use_one_vertex and a positive increment
\* radius, a search centred exactly on a source basis vertex returns one
\* index, of a source vertex at that position, from its first scan (radius 0,
\* no retry).
OnSourceVertex ==
  \E v \in 1..Len(src_key_blocks[1].data) :
    src_key_blocks[1].data[v] = SKT.current_vertex
C12_ExactMatchFirstScan ==
  (SearchReturned /\ SKT.use_one_vertex /\ SKT.increment_radius > 0
     /\ src_matrix_world = IdentityMatrix /\ dest_matrix_world = IdentityMatrix
     /\ OnSourceVertex) =>
    /\ Len(SKT.src_chosen_vertices) = 1
    /\ src_key_blocks[1].data[SKT.src_chosen_vertices[1] + 1] = SKT.current_vertex
    /\ level = 0 /\ scans = 1
    /\ last_scan = <<0, SKT.src_chosen_vertices>>
\* The centre lies on one source vertex, with another one within the first
\* retry's radius.
C12_Witness ==
  /\ SearchReturned /\ SKT.use_one_vertex /\ SKT.number_of_increments >= 1
  /\ src_matrix_world = IdentityMatrix /\ OnSourceVertex
  /\ Cardinality(InRangeAt(0)) = 1
  /\ Cardinality(InRangeAt(SKT.increment_radius)) >= 2
  /\ level = 0 /\ Len(SKT.src_chosen_vertices) = 1

\* ------------------------------------------------------------ blending
\* The sum and the mean of data[v] over a set S of vertex indices.
RECURSIVE SetSum(_, _)
SetSum(data, S) ==
  IF S = {} THEN <<0, 0>>
  ELSE LET v == CHOOSE v \in S : TRUE
       IN VecAdd(data[v + 1], SetSum(data, S \ {v}))
Mean(data, S) == VecDiv(SetSum(data, S), Cardinality(S))
Members(seq) == {seq[j] : j \in 1..Len(seq)}
\* seq rearranged by the permutation p of its positions.
Rearranged(seq, p) == [j \in 1..Len(seq) |-> seq[p[j]]]
\* The source key that the destination key of index k (0-based) is named after.
SourceKey(k) ==
  src_key_blocks[KeyIndex(src_key_blocks, dest_key_blocks[k + 1].name, 1, 0) + 1]

\* C13: every position written, at vertex i of a key, is the vertex's world
\* position plus the mean of the matched vertices' positions in the source
\* key of that name minus their mean in the source basis; for one matched
\* vertex v it is world + (target[v] - basis[v]); and blending the matched
\* indices in any other order gives the same position.
C13_BlendIsMeanDelta ==
  \A w \in written :
    LET matched == Correspondence(w[2])
        world == WorldPosition(w[2])
        target == SourceKey(w[1]).data
        basis == src_key_blocks[1].data
        position == dest_key_blocks[w[1] + 1].data[w[2] + 1]
    IN /\ matched # <<>>
       /\ position = VecAdd(world, VecSub(Mean(target, Members(matched)),
                                          Mean(basis, Members(matched))))
       /\ Len(matched) = 1 =>
            position = VecAdd(world, VecSub(target[matched[1] + 1],
                                            basis[matched[1] + 1]))
       /\ \A p \in Permutations(1..Len(matched)) :
            BlendPosition(src_key_blocks,
                          KeyIndex(src_key_blocks, dest_key_blocks[w[1] + 1].name, 1, 0),
                          Rearranged(matched, p), world) = position
\* A position blended from two matched vertices that the key displaces
\* differently, on a destination whose transform is not the identity.
C13_Witness ==
  \E w \in written :
    LET matched == Correspondence(w[2])
        target == SourceKey(w[1]).data
        basis == src_key_blocks[1].data
    IN /\ Len(matched) = 2
       /\ VecSub(target[matched[1] + 1], basis[matched[1] + 1])
            # VecSub(target[matched[2] + 1], basis[matched[2] + 1])
       /\ dest_matrix_world # IdentityMatrix
       /\ dest_key_blocks[w[1] + 1].data[w[2] + 1] # BasisAtCall[w[2] + 1]

\* ------------------------------------------------------- the main loop
\* The slots written at vertex i.
WrittenAt(i) == {w \in written : w[2] = i}

\* C14: within one transfer no vertex index is searched more than once (the
\* searches go up the indices); a vertex is written only after its own search,
\* then once in every key of the worklist, each position blended from the
\* correspondence set of that vertex's world position; and while the keys of a
\* matched vertex are being written the cached set and position are its own.
C14_SearchOncePerVertex ==
  /\ \A j, k \in 1..Len(searched) : j < k => searched[j] < searched[k]
  /\ \A w \in written :
       /\ \E j \in 1..Len(searched) : searched[j] = w[2]
       /\ Correspondence(w[2]) # <<>>
       /\ dest_key_blocks[w[1] + 1].data[w[2] + 1]
            = Blended(w[2], dest_key_blocks[w[1] + 1].name)
  /\ (pc = "for" /\ key_iter > 1 /\ SKT.src_chosen_vertices # <<>>) =>
       /\ SKT.current_vertex = WorldPosition(SKT.current_vertex_index)
       /\ SKT.src_chosen_vertices = Correspondence(SKT.current_vertex_index)
       /\ searched[Len(searched)] = SKT.current_vertex_index
       /\ Cardinality(WrittenAt(SKT.current_vertex_index)) = key_iter - 1
  /\ (TransferReturned /\ result = "True") =>
       \A w \in written :
         Cardinality(WrittenAt(w[2])) = Len(local_shape_key_list)
\* A second transfer, made after the list was cleared: it searched two
\* vertices and wrote Smile from its own searches, the first transfer having
\* left Frown blended and its last correspondence set in the instance.
C14_Witness ==
  /\ TransferReturned /\ calls = 2 /\ result = "True"
  /\ HasKey(pre_key_blocks, "Frown")
  /\ pre_key_blocks[Len(pre_key_blocks)].data # BasisAtCall
  /\ local_shape_key_list = <<"Smile">>
  /\ Len(searched) = 2 /\ Cardinality(written) = 2

\* How a transfer that passed the checks may end.
Done ==
  /\ result = "True" /\ SKT.message = SuccessMessage
  /\ SKT.current_vertex_index >= SKT.total_vertices
Aborted ==
  /\ result = "False" /\ ~SKT.skip_vertices_with_no_pair
  /\ SKT.message.text =
       "Failed to find surrounding vertices | Try increasing increment radius"
\* A step of the loop never moves the cursor back, and the step that ends one
\* pass of the while loop moves it forward.
CursorAdvances ==
  InLoop =>
    /\ SKT'.current_vertex_index >= SKT.current_vertex_index
    /\ (pc = "for" /\ pc' = "while") =>
         SKT'.current_vertex_index > SKT.current_vertex_index

\* C15: a transfer that passed the checks leaves its main loop: the cursor
\* never goes back and grows with every pass of the while loop, and the call
\* returns either True with the success message, the cursor past every vertex,
\* or False with the unmatched-vertex message.
C15_TransferTerminates ==
  /\ [][CursorAdvances]_vars
  /\ [][InLoop => LoopStep]_vars
  /\ [](InLoop => (pc = "while" \/ key_iter \in 1..(Len(local_shape_key_list) + 1)))
  /\ [][KeyPending => (ForKey /\ (key_iter' # key_iter \/ pc' # pc))]_vars
  /\ [](TransferReturned => (Done \/ Aborted))
  /\ [](InLoop => SKT.current_vertex_index <= SKT.total_vertices + key_iter)
  /\ (InLoop ~> (pc = "idle"))
\* A transfer over two vertices that returned True after skipping the last
\* one: the cursor went one past the vertex count.
C15_Witness ==
  /\ TransferReturned /\ Done /\ SKT.skip_vertices_with_no_pair
  /\ Len(dest_vertices) >= 2 /\ Len(local_shape_key_list) = 1
  /\ written # {}
  /\ SKT.current_vertex_index > SKT.total_vertices

\* ------------------------------------------------------------ frame
\* C16: a call writes only into keys it created itself: every key the
\* destination had when the call began, its basis included, keeps its name and
\* all its positions; a basis the call creates holds the mesh's vertex
\* positions; every slot written belongs to a key of the worklist, created by
\* this call behind the keys that were there; and the source's keys are as
\* they were when the call began.
C16_WritesOnlyNewKeys ==
  /\ src_key_blocks = pre_src_key_blocks
  /\ \A k \in 1..Len(pre_key_blocks) : dest_key_blocks[k] = pre_key_blocks[k]
  /\ Len(dest_key_blocks) > 0 =>
       /\ dest_key_blocks[1].data = BasisAtCall
       /\ dest_key_blocks[1].data = dest_vertices
  /\ \A w \in written :
       /\ w[1] + 1 > Len(NamesAtCall)
       /\ w[1] + 1 <= Len(dest_key_blocks)
       /\ dest_key_blocks[w[1] + 1].name \in Worklist
\* A transfer onto a destination that already had Basis and an edited Smile:
\* it created Frown and moved a vertex of it.
C16_Witness ==
  /\ TransferReturned /\ Len(pre_key_blocks) = 2
  /\ pre_key_blocks[2].data # pre_key_blocks[1].data
  /\ local_shape_key_list = <<"Frown">>
  /\ \E w \in written :
       dest_key_blocks[w[1] + 1].data[w[2] + 1] # BasisAtCall[w[2] + 1]

\* C17: update_vertex runs its body (the read of the basis slot, the use of
\* the cached set, the write) only with a vertex index below the vertex count,
\* whatever the unmatched branch has added to the cursor inside the key loop:
\* every index searched or written is one of 0..vertex_count-1, the unmatched
\* message names such an index, and no key's data grows.
C17_IndicesInRange ==
  /\ entered \subseteq VertexIndices
  /\ \A j \in 1..Len(searched) : searched[j] \in entered
  /\ \A w \in written : w[2] \in entered
  /\ SKT.message.vertex < Len(dest_vertices)
  /\ \A k \in 1..Len(dest_key_blocks) :
       Len(dest_key_blocks[k].data) = Len(dest_vertices)
\* The last vertex was unmatched and skipped at the first of two keys; the
\* call for the second key met the cursor at the vertex count and returned
\* at its first check.
C17_Witness ==
  /\ pc = "for" /\ Len(local_shape_key_list) = 2 /\ key_iter = 3
  /\ SKT.skip_vertices_with_no_pair
  /\ SKT.current_vertex_index = SKT.total_vertices
  /\ SKT.message.vertex = SKT.total_vertices - 1
  /\ (SKT.total_vertices - 1) \in entered
  /\ written # {}

\* ------------------------------------------------------ repeated calls
\* C18: a transfer made right after a transfer or copy_only call that passed
\* the checks, with nothing changed in between, finds nothing to create: its
\* worklist is empty, it searches and writes nothing, it returns True with the
\* success message and the destination's keys are as the first call left them.
C18_RepeatedTransferChangesNothing ==
  (TransferReturned /\ prev_passed) =>
    /\ result = "True"
    /\ SKT.message = SuccessMessage
    /\ local_shape_key_list = <<>>
    /\ searched = <<>> /\ written = {}
    /\ dest_key_blocks = pre_key_blocks
\* The first call was a transfer that aborted on its second vertex, leaving
\* Frown blended at vertex 0 only; the repeated transfer returned True.
C18_Witness ==
  /\ TransferReturned /\ prev_passed /\ calls = 2
  /\ ~SKT.skip_vertices_with_no_pair /\ result = "True"
  /\ Len(dest_vertices) = 2 /\ HasKey(dest_key_blocks, "Frown")
  /\ DestKey("Frown").data[1] # BasisAtCall[1]
  /\ DestKey("Frown").data[2] = BasisAtCall[2]
  /\ UnmatchedVertices = {1}

\* C19: a transfer that aborts on vertex i undoes nothing: the keys that its
\* provisioning created are on the destination, behind the keys that were
\* there, which are untouched; in every key of the worklist each vertex below
\* i holds its blended position, and vertex i and each vertex above it hold
\* the basis position the key was created with.
AbortedAt == SKT.message.vertex
C19_AbortKeepsPartialWrites ==
  (TransferReturned /\ ~SKT.skip_vertices_with_no_pair /\ result = "False") =>
    /\ AbortedAt \in VertexIndices
    /\ local_shape_key_list # <<>>
    /\ KeyNames(dest_key_blocks) = NamesAtCall \o local_shape_key_list
    /\ \A k \in 1..Len(pre_key_blocks) : dest_key_blocks[k] = pre_key_blocks[k]
    /\ \A name \in Worklist : \A j \in VertexIndices :
         DestKey(name).data[j + 1] =
           (IF j < AbortedAt THEN Blended(j, name) ELSE BasisAtCall[j + 1])
\* An abort on the second vertex with two keys in the worklist: vertex 0 was
\* moved in both.
C19_Witness ==
  /\ TransferReturned /\ ~SKT.skip_vertices_with_no_pair /\ result = "False"
  /\ AbortedAt = 1 /\ local_shape_key_list = <<"Smile", "Frown">>
  /\ DestKey("Smile").data[1] # BasisAtCall[1]
  /\ DestKey("Frown").data[1] # BasisAtCall[1]
  /\ DestKey("Smile").data[1] # DestKey("Frown").data[1]

====
